---- MODULE Spec2Model ----
(***************************************************************************)
(* The filterable, virtualised combobox (Combobox) and the equipment       *)
(* preset selector (EquipmentPresets.onSelect) as state machines.          *)
(*                                                                         *)
(* Every state of the Combobox machine is one committed React render.      *)
(* An event handler (a keystroke, an arrow key, a click, a prop change)    *)
(* updates state and renders; the passive effects of that render (the row  *)
(* measurement effects, the value effect, the filter effect and the        *)
(* change notifications of useCombobox) run afterwards in one flush, whose *)
(* state updates are rendered in turn.  Text is a sequence of one-letter   *)
(* strings so that toLowerCase and includes are computed, not assumed.     *)
(***************************************************************************)
EXTENDS Integers, Sequences, FiniteSets, TLC

VARIABLES
  value, items,                 \* props: value?: string, items: T[]
  resetAfterSelect, blurAfterSelect, keepOpenAfterSelect,   \* props (flags)
  inputValue, filteredItems,    \* useState of Combobox
  ds,                           \* state of useCombobox: [hi, open, sel, iv]
  prev, actIv,                  \* useCombobox: previous state, last action's props.inputValue
  focused,                      \* whether the <input> has focus
  rowHeights,                   \* rowHeights.current: index -> measured height
  listShown, lastMeasuredIndex, itemSizes, scrollIndex,   \* the <List> instance
  freshRows,                    \* rows mounted by the last render, measurement pending
  pendValue, pendFilter, pendDs,\* effects the last render scheduled
  pc,                           \* "effects": a flush is due; "idle": none
  ev, committed, selBefore, calls,   \* history: last event, its item, callback arguments
  availableEquipment, notifications, updateCalls   \* EquipmentPresets

vars == << value, items, resetAfterSelect, blurAfterSelect, keepOpenAfterSelect,
           inputValue, filteredItems, ds, prev, actIv, focused, rowHeights,
           listShown, lastMeasuredIndex, itemSizes, scrollIndex, freshRows,
           pendValue, pendFilter, pendDs, pc, ev, committed, selBefore, calls,
           availableEquipment, notifications, updateCalls >>

comboVars == << value, items, resetAfterSelect, blurAfterSelect, keepOpenAfterSelect,
           inputValue, filteredItems, ds, prev, actIv, focused, rowHeights,
           listShown, lastMeasuredIndex, itemSizes, scrollIndex, freshRows,
           pendValue, pendFilter, pendDs, pc, ev, committed, selBefore, calls >>

presetVars == << availableEquipment, notifications, updateCalls >>

----------------------------------------------------------------------------
(* Bounds.                                                                 *)

\* The longest text the user types.
MaxLen == 2

\* The longest sequence of selection notifications EquipmentPresets receives.
MaxNotifications == 3

----------------------------------------------------------------------------
(* Text.                                                                   *)

Chars == {"a", "A", "b"}

EmptyText == << >>

\* String.prototype.toLowerCase, per letter.
ToLowerChar(c) ==
  CASE c = "A" -> "a"
    [] c = "B" -> "b"
    [] OTHER   -> c

ToLowerCase(s) == [i \in 1..Len(s) |-> ToLowerChar(s[i])]

\* String.prototype.includes: t occurs in s as a contiguous run.
Includes(s, t) ==
  \E k \in 0..(Len(s) - Len(t)) : \A j \in 1..Len(t) : s[k + j] = t[j]

----------------------------------------------------------------------------
(* Items: {label, value}.                                                  *)

Null == "null"

\* An absent value prop (value?: string); no typed text equals it.
Undefined == << "undefined" >>

AllItems == {"i1", "i2", "i3"}

Label(i) ==
  CASE i = "i1" -> << "A", "b" >>
    [] i = "i2" -> << "b" >>
    [] i = "i3" -> << "a", "B" >>

\* const itemToString = (i) => (i ? i.label : '')
itemToString(i) == IF i \in AllItems THEN Label(i) ELSE EmptyText

\* The lists the caller passes as the items prop.
ItemLists == { << "i1", "i2", "i3" >>, << "i3", "i1" >>, << >> }

\* The values the caller passes as the value prop.
Values == { Undefined, EmptyText, << "a" >> }

\* value || ''
ValueOrEmpty(v) == IF v = Undefined THEN EmptyText ELSE v

\* if (value): undefined and '' are falsy.
Truthy(v) == v # Undefined /\ v # EmptyText

----------------------------------------------------------------------------
(* The filter effect's computation.                                        *)

FilterNoLowerQuery(L, iv) ==
  IF iv # EmptyText
    THEN SelectSeq(L, LAMBDA v : Includes(ToLowerCase(Label(v)), iv))
    ELSE L

\* let newFilteredItems = items;
\* if (inputValue) { iv = inputValue.toLowerCase();
\*   newFilteredItems = items.filter((v) => v.label.toLowerCase().includes(iv)) }
Filter(L, iv) ==
  IF iv # EmptyText
    THEN SelectSeq(L, LAMBDA v : Includes(ToLowerCase(Label(v)), ToLowerCase(iv)))
    ELSE L

DepsItemsOnly(oldIv, newIv, oldItems, newItems) == oldItems # newItems

\* The dependency array of the filter effect: [inputValue, items].
FilterDepsChanged(oldIv, newIv, oldItems, newItems) ==
  oldIv # newIv \/ oldItems # newItems

----------------------------------------------------------------------------
(* useCombobox (downshift): the reducer behind the returned state and the  *)
(* functions reset and setHighlightedIndex.  inputValue is a controlled    *)
(* prop: the reducer reads it from the props the action was dispatched     *)
(* with, and the on-change handlers are told about every key that differs  *)
(* between the previous and the new state.                                 *)

\* An action carries the props it was dispatched with.
Action(type, piv, pitems, index, text) ==
  [type |-> type, piv |-> piv, pitems |-> pitems, index |-> index, text |-> text]

\* defaultIsOpen: props.keepOpenAfterSelect
DefaultIsOpen == keepOpenAfterSelect

Overlay(s, piv) == [s EXCEPT !.iv = piv]

\* Arrow keys move the highlight by one and wrap around at both ends.
NextWrappingIndex(move, base, n) ==
  IF n = 0 THEN -1
  ELSE LET b == IF base < 0 \/ base >= n
                  THEN (IF move > 0 THEN -1 ELSE n)
                  ELSE base
           i == b + move
       IN  IF i < 0 THEN n - 1 ELSE IF i > n - 1 THEN 0 ELSE i

IndexOf(L, x) ==
  IF \E i \in 1..Len(L) : L[i] = x
    THEN (CHOOSE i \in 1..Len(L) : L[i] = x /\ \A j \in 1..(i - 1) : L[j] # x) - 1
    ELSE -1

\* The highlight an arrow key gives a closed menu when it opens it.
HighlightedIndexOnOpen(s, L, move) ==
  IF Len(L) = 0 THEN -1
  ELSE IF s.sel # Null THEN IndexOf(L, s.sel)
  ELSE IF move < 0 THEN Len(L) - 1 ELSE 0

SelectAt(s, L, index) ==
  [hi |-> -1, open |-> DefaultIsOpen, sel |-> L[index + 1],
   iv |-> itemToString(L[index + 1])]

Reduce(s0, a) ==
  LET s == Overlay(s0, a.piv)
      n == Len(a.pitems)
  IN  CASE a.type = "InputChange" ->
             [s EXCEPT !.open = TRUE, !.hi = -1, !.iv = a.text]
        [] a.type = "InputKeyDownArrowDown" ->
             IF s.open
               THEN [s EXCEPT !.hi = NextWrappingIndex(1, s.hi, n)]
               ELSE [s EXCEPT !.hi = HighlightedIndexOnOpen(s, a.pitems, 1),
                              !.open = TRUE]
        [] a.type = "InputKeyDownArrowUp" ->
             IF s.open
               THEN [s EXCEPT !.hi = NextWrappingIndex(-1, s.hi, n)]
               ELSE [s EXCEPT !.hi = HighlightedIndexOnOpen(s, a.pitems, -1),
                              !.open = TRUE]
        [] a.type = "ItemMouseMove" -> [s EXCEPT !.hi = a.index]
        [] a.type = "ItemClick" -> SelectAt(s, a.pitems, a.index)
        [] a.type = "InputKeyDownEnter" -> SelectAt(s, a.pitems, s.hi)
        [] a.type = "InputBlur" ->
             IF s.hi >= 0 /\ s.hi < n
               THEN [hi |-> -1, open |-> FALSE, sel |-> a.pitems[s.hi + 1],
                     iv |-> itemToString(a.pitems[s.hi + 1])]
               ELSE [s EXCEPT !.open = FALSE, !.hi = -1]
        [] a.type = "FunctionReset" ->
             [hi |-> -1, open |-> DefaultIsOpen, sel |-> Null, iv |-> EmptyText]
        [] a.type = "FunctionSetHighlightedIndex" -> [s EXCEPT !.hi = a.index]

RECURSIVE ReduceAll(_, _)
ReduceAll(s, as) ==
  IF as = << >> THEN s ELSE ReduceAll(Reduce(s, Head(as)), Tail(as))

----------------------------------------------------------------------------
(* Virtualisation: the row-height cache of Combobox and the layout cache   *)
(* of the VariableSizeList it feeds (sizes known up to lastMeasuredIndex). *)

DefaultRowHeight == 30
RowPadding == 15

\* rowRef.current.clientHeight: the height of a row is that of its content,
\* the label (or custom component) of the item it renders.
clientHeight(i) ==
  CASE i = "i1" -> 20
    [] i = "i2" -> 40
    [] i = "i3" -> 20

NoRows == [i \in {} |-> 0]

Min(a, b) == IF a < b THEN a ELSE b

\* return rowHeights.current[ix] + 15 || 30
\* (undefined + 15 is NaN; NaN and 0 are falsy)
getRowHeight(rh, ix) ==
  IF ix \notin DOMAIN rh THEN DefaultRowHeight
  ELSE IF rh[ix] + RowPadding = 0 THEN DefaultRowHeight
  ELSE rh[ix] + RowPadding

\* List.resetAfterIndex(index): forget the sizes cached from index on.
ResetAfterIndex(c, index) ==
  LET lmi == Min(c.lmi, index - 1)
  IN  [lmi |-> lmi, sizes |-> [i \in 0..lmi |-> c.sizes[i]]]

\* The List computing the layout of rows 0..n-1: a size not cached yet is
\* asked of itemSize (getRowHeight), a cached one is reused.
Layout(c, rh, n) ==
  IF n - 1 > c.lmi
    THEN [lmi |-> n - 1,
          sizes |-> [i \in 0..(n - 1) |->
                       IF i <= c.lmi THEN c.sizes[i] ELSE getRowHeight(rh, i)]]
    ELSE c

setRowHeightResetLater(st, ix, height) ==
  LET c == IF st.shown THEN ResetAfterIndex([lmi |-> st.lmi, sizes |-> st.sizes], ix + 1)
                       ELSE [lmi |-> st.lmi, sizes |-> st.sizes]
  IN  [rh |-> [i \in (DOMAIN st.rh) \cup {ix} |-> IF i = ix THEN height ELSE st.rh[i]],
       lmi |-> c.lmi, sizes |-> c.sizes, shown |-> st.shown]

\* listRef.current?.resetAfterIndex(0);
\* rowHeights.current = {...rowHeights.current, [ix]: height};
setRowHeight(st, ix, height) ==
  LET c == IF st.shown THEN ResetAfterIndex([lmi |-> st.lmi, sizes |-> st.sizes], 0)
                       ELSE [lmi |-> st.lmi, sizes |-> st.sizes]
  IN  [rh |-> [i \in (DOMAIN st.rh) \cup {ix} |-> IF i = ix THEN height ELSE st.rh[i]],
       lmi |-> c.lmi, sizes |-> c.sizes, shown |-> st.shown]

\* The measurement effect of every row the last render mounted:
\* if (rowRef.current) setRowHeight(index, rowRef.current.clientHeight)
RECURSIVE MeasureRows(_, _, _)
MeasureRows(st, rows, hs) ==
  IF rows = {} THEN st
  ELSE LET ix == CHOOSE i \in rows : \A j \in rows : i <= j
       IN  MeasureRows(setRowHeight(st, ix, hs[ix]), rows \ {ix}, hs)

\* {!isOpen || !filteredItems.length ? null : <List .../>}
ListRendered(open, fi) == open /\ Len(fi) > 0

\* The List after a render: a List that was not there is a new instance.
ListCache(wasShown, shown, c, rh, n) ==
  IF ~shown THEN [lmi |-> -1, sizes |-> NoRows]
  ELSE IF ~wasShown THEN Layout([lmi |-> -1, sizes |-> NoRows], rh, n)
  ELSE Layout(c, rh, n)

\* The start offset the cached layout gives row j.
RECURSIVE ItemOffset(_, _)
ItemOffset(sizes, j) ==
  IF j = 0 THEN 0 ELSE ItemOffset(sizes, j - 1) + sizes[j - 1]

----------------------------------------------------------------------------
(* The handlers Combobox passes to useCombobox.                            *)

SetHighlightedIndexAction(i) ==
  Action("FunctionSetHighlightedIndex", inputValue, filteredItems, i, EmptyText)

ResetAction == Action("FunctionReset", inputValue, filteredItems, 0, EmptyText)

BlurAction == Action("InputBlur", inputValue, filteredItems, 0, EmptyText)

onInputValueChangeNoHighlight(newValue) ==
  [setInput |-> newValue, scroll |-> TRUE, dispatch |-> << >>]

\* onInputValueChange: ({inputValue: newValue}) => {
\*   setInputValue(newValue || ''); listRef.current?.scrollToItem(0);
\*   setHighlightedIndex(0); }
onInputValueChange(newValue) ==
  [setInput |-> newValue, scroll |-> TRUE,
   dispatch |-> << SetHighlightedIndexAction(0) >>]

onSelectedItemChangeSkipNull(selectedItem) ==
  [call |-> IF selectedItem # Null THEN << selectedItem >> ELSE << >>,
   dispatch |-> IF resetAfterSelect THEN << ResetAction >> ELSE << >>,
   blur |-> blurAfterSelect]

onSelectedItemChangeSwappedFlags(selectedItem) ==
  [call |-> << selectedItem >>,
   dispatch |-> IF blurAfterSelect THEN << ResetAction >> ELSE << >>,
   blur |-> resetAfterSelect]

\* onSelectedItemChange: ({selectedItem}) => {
\*   if (onSelectedItemChange) onSelectedItemChange(selectedItem);
\*   if (resetAfterSelect) reset();
\*   if (blurAfterSelect) inputRef.current?.blur(); }
\* (the caller is one that passes the callback)
onSelectedItemChange(selectedItem) ==
  [call |-> << selectedItem >>,
   dispatch |-> IF resetAfterSelect THEN << ResetAction >> ELSE << >>,
   blur |-> blurAfterSelect]

----------------------------------------------------------------------------
(* The Combobox machine.                                                   *)

Rows(fi) == 0..(Len(fi) - 1)

\* EquipmentPresets is not part of this machine.
PresetsIdle ==
  /\ availableEquipment = {}
  /\ notifications = << >>
  /\ updateCalls = << >>

\* The first render: useState(value || ''), useState([]), the initial state
\* of useCombobox, and the effects of a mount (all of them) scheduled.
Init ==
  /\ value \in Values
  /\ items \in ItemLists
  /\ resetAfterSelect \in BOOLEAN
  /\ blurAfterSelect \in BOOLEAN
  /\ keepOpenAfterSelect \in BOOLEAN
  /\ inputValue = ValueOrEmpty(value)
  /\ filteredItems = << >>
  /\ ds = [hi |-> -1, open |-> keepOpenAfterSelect, sel |-> Null,
           iv |-> ValueOrEmpty(value)]
  /\ prev = ds
  /\ actIv = inputValue
  /\ focused = FALSE
  /\ rowHeights = NoRows
  /\ listShown = FALSE
  /\ lastMeasuredIndex = -1
  /\ itemSizes = NoRows
  /\ scrollIndex = 0
  /\ freshRows = {}
  /\ pendValue = TRUE
  /\ pendFilter = "mount"
  /\ pendDs = FALSE
  /\ pc = "effects"
  /\ ev = "mount"
  /\ committed = Null
  /\ selBefore = Null
  /\ calls = << >>
  /\ PresetsIdle

\* A handler of useCombobox dispatching action a, and the render that follows.
Dispatch(a, event, item, focus) ==
  LET ds2   == Reduce(ds, a)
      shown == ListRendered(ds2.open, filteredItems)
      c     == ListCache(listShown, shown,
                         [lmi |-> lastMeasuredIndex, sizes |-> itemSizes],
                         rowHeights, Len(filteredItems))
  IN  /\ pc = "idle"
      /\ ds' = ds2
      /\ prev' = ds
      /\ actIv' = a.piv
      /\ pendDs' = TRUE
      /\ listShown' = shown
      /\ lastMeasuredIndex' = c.lmi
      /\ itemSizes' = c.sizes
      /\ scrollIndex' = IF shown /\ listShown THEN scrollIndex ELSE 0
      /\ freshRows' = IF shown THEN Rows(filteredItems) ELSE {}
      /\ focused' = (focused \/ focus)
      /\ pc' = "effects"
      /\ ev' = event
      /\ committed' = item
      /\ selBefore' = IF event = "commit" THEN ds.sel ELSE Null
      /\ calls' = << >>
      /\ UNCHANGED << value, items, resetAfterSelect, blurAfterSelect,
                      keepOpenAfterSelect, inputValue, filteredItems, rowHeights,
                      pendValue, pendFilter, presetVars >>

\* The user types a letter into the input (onChange of getInputProps).
TypeChar ==
  \E ch \in Chars :
    /\ Len(inputValue) < MaxLen
    /\ Dispatch(Action("InputChange", inputValue, filteredItems, 0,
                       Append(inputValue, ch)), "other", Null, TRUE)

\* The user deletes the last letter.
Backspace ==
  /\ inputValue # EmptyText
  /\ Dispatch(Action("InputChange", inputValue, filteredItems, 0,
                     SubSeq(inputValue, 1, Len(inputValue) - 1)), "other", Null, TRUE)

ArrowDown ==
  Dispatch(Action("InputKeyDownArrowDown", inputValue, filteredItems, 0, EmptyText),
           "other", Null, TRUE)

ArrowUp ==
  Dispatch(Action("InputKeyDownArrowUp", inputValue, filteredItems, 0, EmptyText),
           "other", Null, TRUE)

\* The pointer moves over a rendered row (getItemProps of ItemRenderer).
Hover ==
  \E i \in Rows(filteredItems) :
    /\ listShown
    /\ ds.hi # i
    /\ Dispatch(Action("ItemMouseMove", inputValue, filteredItems, i, EmptyText),
                "other", Null, FALSE)

\* A click on a rendered row commits it.
ClickItem ==
  \E i \in Rows(filteredItems) :
    /\ listShown
    /\ Dispatch(Action("ItemClick", inputValue, filteredItems, i, EmptyText),
                "commit", filteredItems[i + 1], FALSE)

\* Enter commits the highlighted row.
Enter ==
  /\ listShown
  /\ ds.hi \in Rows(filteredItems)
  /\ Dispatch(Action("InputKeyDownEnter", inputValue, filteredItems, 0, EmptyText),
              "commit", filteredItems[ds.hi + 1], TRUE)

\* The user scrolls the list: no state of Combobox changes.
Scroll ==
  \E k \in Rows(filteredItems) :
    /\ pc = "idle"
    /\ listShown
    /\ k # scrollIndex
    /\ scrollIndex' = k
    /\ ev' = "other"
    /\ committed' = Null
    /\ selBefore' = Null
    /\ calls' = << >>
    /\ UNCHANGED << value, items, resetAfterSelect, blurAfterSelect,
                    keepOpenAfterSelect, inputValue, filteredItems, ds, prev, actIv,
                    focused, rowHeights, listShown, lastMeasuredIndex, itemSizes,
                    freshRows, pendValue, pendFilter, pendDs, pc, presetVars >>

\* The caller renders Combobox with new props (newValue, newItems).
PropsChange(newValue, newItems, event) ==
  /\ pc = "idle"
  /\ value' = newValue
  /\ items' = newItems
  /\ pendValue' = (newValue # value)
  /\ pendFilter' = IF FilterDepsChanged(inputValue, inputValue, items, newItems)
                     THEN "items" ELSE "none"
  /\ freshRows' = IF listShown THEN Rows(filteredItems) ELSE {}
  /\ pc' = "effects"
  /\ ev' = event
  /\ committed' = Null
  /\ selBefore' = Null
  /\ calls' = << >>
  /\ UNCHANGED << resetAfterSelect, blurAfterSelect, keepOpenAfterSelect,
                  inputValue, filteredItems, ds, prev, actIv, focused, rowHeights,
                  listShown, lastMeasuredIndex, itemSizes, scrollIndex, pendDs,
                  presetVars >>

ChangeValue ==
  \E v \in Values : v # value /\ PropsChange(v, items, "value")

ChangeItems ==
  \E L \in ItemLists : L # items /\ PropsChange(value, L, "other")

\* The passive effects of the last render, in order: the measurement effect
\* of each mounted row, the value effect, the filter effect, the change
\* notifications of useCombobox; then the render of the state they set.
FlushEffects ==
  /\ pc = "effects"
  /\   LET hs  == [ix \in freshRows |-> clientHeight(filteredItems[ix + 1])]
           st1 == MeasureRows([rh |-> rowHeights, lmi |-> lastMeasuredIndex,
                               sizes |-> itemSizes, shown |-> listShown],
                              freshRows, hs)
           \* useEffect(() => { if (value) setInputValue(value) }, [value])
           fromValue == pendValue /\ Truthy(value)
           \* useEffect(() => {...; setFilteredItems(newFilteredItems)}, [inputValue, items])
           newFiltered == IF pendFilter # "none" THEN Filter(items, inputValue)
                                                 ELSE filteredItems
           \* useCombobox: the keys that changed since the previous state
           prevState  == Overlay(prev, actIv)
           selChanged == pendDs /\ ds.sel # prevState.sel
           ivChanged  == pendDs /\ ds.iv # prevState.iv
           hS == onSelectedItemChange(ds.sel)
           hI == onInputValueChange(ds.iv)
           blurs == selChanged /\ hS.blur
           dispatches ==
             (IF selChanged THEN hS.dispatch ELSE << >>)
             \o (IF blurs /\ focused /\ ds.open THEN << BlurAction >> ELSE << >>)
             \o (IF ivChanged THEN hI.dispatch ELSE << >>)
           newInput == IF ivChanged THEN hI.setInput
                       ELSE IF fromValue THEN value ELSE inputValue
           ds2   == ReduceAll(ds, dispatches)
           again == dispatches # << >>
           rerender == \/ newInput # inputValue
                       \/ newFiltered # filteredItems
                       \/ (pendFilter # "none" /\ inputValue # EmptyText)
                       \/ again
           shown == ListRendered(ds2.open, newFiltered)
           c     == ListCache(listShown, shown, [lmi |-> st1.lmi, sizes |-> st1.sizes],
                              st1.rh, Len(newFiltered))
           fresh == IF shown /\ (rerender \/ ~listShown) THEN Rows(newFiltered) ELSE {}
           nextFilter ==
             IF FilterDepsChanged(inputValue, newInput, items, items)
               THEN (IF ivChanged THEN "input" ELSE "value")
               ELSE "none"
           idle == nextFilter = "none" /\ ~again /\ fresh = {}
       IN  /\ rowHeights' = st1.rh
           /\ inputValue' = newInput
           /\ filteredItems' = newFiltered
           /\ ds' = IF idle THEN Overlay(ds2, newInput) ELSE ds2
           /\ prev' = IF again THEN ds ELSE ds'
           /\ actIv' = IF again THEN inputValue ELSE newInput
           /\ pendDs' = again
           /\ pendValue' = FALSE
           /\ pendFilter' = nextFilter
           /\ listShown' = shown
           /\ lastMeasuredIndex' = c.lmi
           /\ itemSizes' = c.sizes
           /\ scrollIndex' = IF ~shown \/ ~listShown THEN 0
                             ELSE IF ivChanged /\ hI.scroll THEN 0
                             ELSE Min(scrollIndex, Len(newFiltered) - 1)
           /\ freshRows' = fresh
           /\ focused' = (focused /\ ~blurs)
           /\ calls' = calls \o (IF selChanged THEN hS.call ELSE << >>)
           /\ pc' = IF idle THEN "idle" ELSE "effects"
           /\ UNCHANGED << value, items, resetAfterSelect, blurAfterSelect,
                           keepOpenAfterSelect, ev, committed, selBefore, presetVars >>

Next ==
  \/ TypeChar
  \/ Backspace
  \/ ArrowDown
  \/ ArrowUp
  \/ Hover
  \/ ClickItem
  \/ Enter
  \/ Scroll
  \/ ChangeValue
  \/ ChangeItems
  \/ FlushEffects

Spec == Init /\ [][Next]_vars

----------------------------------------------------------------------------
(* EquipmentPresets.onSelect.                                              *)

Presets == {"DHAROKS", "MAX_MELEE", "MAX_RANGED", "VERACS", "VOID_MELEE", "VOID_RANGED"}

\* What a selection-change notification carries: a preset item, null,
\* undefined, or an item whose value is none of the six.
Notifications == Presets \cup {"null", "undefined", "OTHER"}

EquipmentIds ==
  {4880, 21295, 19553, 22947, 4718, 4892, 4898, 22981, 13239, 28307,
   26382, 26384, 26386, 27235, 22109, 19547, 11212, 27238, 27241, 26235,
   13237, 28310, 11665, 13072, 13073, 8842, 11664, 4976, 4755, 4988, 4994}

\* The stores the component runs against: every item loaded, none loaded,
\* only part of them loaded.
EquipmentSets == { EquipmentIds, {}, {4880, 21295, 26382, 11664, 4976} }

NoItem == [kind |-> "undefined"]
NullItem == [kind |-> "null"]

\* const findItemById = (id) => availableEquipment.find((eq) => eq.id === id)
findItemById(id) ==
  IF id \in availableEquipment THEN [kind |-> "item", id |-> id] ELSE NoItem

\* let newPlayer: PartialDeep<Player> = {}
EmptyPlayer == << >>

newPlayerNoVeracs(v) ==
  CASE v = "DHAROKS" ->
         [equipment |->
            [head |-> findItemById(4880), cape |-> findItemById(21295),
             neck |-> findItemById(19553), ammo |-> findItemById(22947),
             weapon |-> findItemById(4718), body |-> findItemById(4892),
             shield |-> NullItem, legs |-> findItemById(4898),
             hands |-> findItemById(22981), feet |-> findItemById(13239),
             ring |-> findItemById(28307)]]
    [] v = "MAX_MELEE" ->
         [equipment |->
            [head |-> findItemById(26382), cape |-> findItemById(21295),
             neck |-> findItemById(19553), ammo |-> findItemById(22947),
             body |-> findItemById(26384), legs |-> findItemById(26386),
             hands |-> findItemById(22981), feet |-> findItemById(13239),
             ring |-> findItemById(28307)]]
    [] v = "MAX_RANGED" ->
         [equipment |->
            [head |-> findItemById(27235), cape |-> findItemById(22109),
             neck |-> findItemById(19547), ammo |-> findItemById(11212),
             body |-> findItemById(27238), legs |-> findItemById(27241),
             hands |-> findItemById(26235), feet |-> findItemById(13237),
             ring |-> findItemById(28310)]]
    [] v = "VOID_MELEE" ->
         [equipment |->
            [head |-> findItemById(11665), cape |-> findItemById(21295),
             neck |-> findItemById(19553), ammo |-> findItemById(22947),
             body |-> findItemById(13072), legs |-> findItemById(13073),
             hands |-> findItemById(8842), feet |-> findItemById(13239),
             ring |-> findItemById(28307)]]
    [] v = "VOID_RANGED" ->
         [equipment |->
            [head |-> findItemById(11664), cape |-> findItemById(22109),
             neck |-> findItemById(19547), ammo |-> findItemById(11212),
             body |-> findItemById(13072), legs |-> findItemById(13073),
             hands |-> findItemById(8842), feet |-> findItemById(13237),
             ring |-> findItemById(28310)]]
    [] OTHER -> EmptyPlayer

\* switch (v?.value) { case EquipmentPreset.DHAROKS: newPlayer = {...}; ... default: break }
newPlayer(v) ==
  CASE v = "DHAROKS" ->
         [equipment |->
            [head |-> findItemById(4880), cape |-> findItemById(21295),
             neck |-> findItemById(19553), ammo |-> findItemById(22947),
             weapon |-> findItemById(4718), body |-> findItemById(4892),
             shield |-> NullItem, legs |-> findItemById(4898),
             hands |-> findItemById(22981), feet |-> findItemById(13239),
             ring |-> findItemById(28307)]]
    [] v = "MAX_MELEE" ->
         [equipment |->
            [head |-> findItemById(26382), cape |-> findItemById(21295),
             neck |-> findItemById(19553), ammo |-> findItemById(22947),
             body |-> findItemById(26384), legs |-> findItemById(26386),
             hands |-> findItemById(22981), feet |-> findItemById(13239),
             ring |-> findItemById(28307)]]
    [] v = "MAX_RANGED" ->
         [equipment |->
            [head |-> findItemById(27235), cape |-> findItemById(22109),
             neck |-> findItemById(19547), ammo |-> findItemById(11212),
             body |-> findItemById(27238), legs |-> findItemById(27241),
             hands |-> findItemById(26235), feet |-> findItemById(13237),
             ring |-> findItemById(28310)]]
    [] v = "VOID_MELEE" ->
         [equipment |->
            [head |-> findItemById(11665), cape |-> findItemById(21295),
             neck |-> findItemById(19553), ammo |-> findItemById(22947),
             body |-> findItemById(13072), legs |-> findItemById(13073),
             hands |-> findItemById(8842), feet |-> findItemById(13239),
             ring |-> findItemById(28307)]]
    [] v = "VOID_RANGED" ->
         [equipment |->
            [head |-> findItemById(11664), cape |-> findItemById(22109),
             neck |-> findItemById(19547), ammo |-> findItemById(11212),
             body |-> findItemById(13072), legs |-> findItemById(13073),
             hands |-> findItemById(8842), feet |-> findItemById(13237),
             ring |-> findItemById(28310)]]
    [] v = "VERACS" ->
         [equipment |->
            [head |-> findItemById(4976), cape |-> findItemById(21295),
             neck |-> findItemById(19553), ammo |-> findItemById(22947),
             weapon |-> findItemById(4755), body |-> findItemById(4988),
             shield |-> NullItem, legs |-> findItemById(4994),
             hands |-> findItemById(22981), feet |-> findItemById(13239),
             ring |-> findItemById(28307)]]
    [] OTHER -> EmptyPlayer

\* The Combobox machine stands still while EquipmentPresets is looked at.
ComboboxUnmounted ==
  /\ value = Undefined
  /\ items = << >>
  /\ resetAfterSelect = TRUE
  /\ blurAfterSelect = FALSE
  /\ keepOpenAfterSelect = FALSE
  /\ inputValue = EmptyText
  /\ filteredItems = << >>
  /\ ds = [hi |-> -1, open |-> FALSE, sel |-> Null, iv |-> EmptyText]
  /\ prev = ds
  /\ actIv = EmptyText
  /\ focused = FALSE
  /\ rowHeights = NoRows
  /\ listShown = FALSE
  /\ lastMeasuredIndex = -1
  /\ itemSizes = NoRows
  /\ scrollIndex = 0
  /\ freshRows = {}
  /\ pendValue = FALSE
  /\ pendFilter = "none"
  /\ pendDs = FALSE
  /\ pc = "idle"
  /\ ev = "mount"
  /\ committed = Null
  /\ selBefore = Null
  /\ calls = << >>

InitPresets ==
  /\ availableEquipment \in EquipmentSets
  /\ notifications = << >>
  /\ updateCalls = << >>
  /\ ComboboxUnmounted

\* onSelect(v): build newPlayer, and
\* if (Object.keys(newPlayer).length > 0) store.updatePlayer(newPlayer)
onSelect ==
  \E v \in Notifications :
    /\ Len(notifications) < MaxNotifications
    /\ notifications' = Append(notifications, v)
    /\ updateCalls' = IF DOMAIN newPlayer(v) # {}
                        THEN Append(updateCalls, newPlayer(v))
                        ELSE updateCalls
    /\ UNCHANGED << availableEquipment, comboVars >>

NextPresets == onSelect

SpecPresets == InitPresets /\ [][NextPresets]_vars

----------------------------------------------------------------------------
(* Properties.                                                             *)

\* Two letters that differ at most in case.
SameLetter(c, d) ==
  c = d \/ {c, d} \in {{"a", "A"}, {"b", "B"}}

\* q occurs in label as a contiguous run, case ignored.
ContainsIgnoringCase(label, q) ==
  \E k \in 0..(Len(label) - Len(q)) :
    \A j \in 1..Len(q) : SameLetter(label[k + j], q[j])

\* The positions of L whose label contains q.
Matching(L, q) == {i \in 1..Len(L) : ContainsIgnoringCase(Label(L[i]), q)}

\* f lists exactly the matching elements of L, in L's order.
IsMatchingSubsequence(f, L, q) ==
  /\ Len(f) = Cardinality(Matching(L, q))
  /\ \A k \in 1..Len(f) :
       \E i \in Matching(L, q) :
         /\ Cardinality({j \in Matching(L, q) : j < i}) = k - 1
         /\ f[k] = L[i]

\* C1: once the effects have run, filteredItems is exactly the subsequence
\* of items whose labels contain the input text, case ignored; with an
\* empty input text it is items itself.
C1_FilteredItemsAreTheMatches ==
  pc = "idle" =>
    /\ IsMatchingSubsequence(filteredItems, items, inputValue)
    /\ (inputValue = EmptyText => filteredItems = items)

\* C1 witness: an upper-case query that keeps some items, in order, and
\* drops one between them.
C1_Witness ==
  /\ pc = "idle"
  /\ inputValue = << "A" >>
  /\ items = << "i1", "i2", "i3" >>
  /\ filteredItems = << "i1", "i3" >>

\* C2 (as claimed): every commit calls the caller's onSelectedItemChange
\* exactly once, with the committed item.
C2_ExactlyOncePerCommit ==
  (ev = "commit" /\ pc = "idle") => calls = << committed >>

\* C2 (amended): a commit calls the callback with the committed item only
\* when it changes selectedItem; with resetAfterSelect the reset that follows
\* calls it a second time, with null; a commit of the item already selected
\* calls nothing.
C2_CallbackPerSelectionChange ==
  (ev = "commit" /\ pc = "idle") =>
    calls = IF committed = selBefore THEN << >>
            ELSE IF resetAfterSelect THEN << committed, Null >>
            ELSE << committed >>

\* C2 witness: a commit, after an earlier commit of another item, that the
\* callback was told about.
C2_Witness ==
  /\ ev = "commit"
  /\ pc = "idle"
  /\ selBefore \in AllItems
  /\ committed # selBefore
  /\ calls = << committed >>

\* C3 (as claimed): with resetAfterSelect, after a commit and its handlers
\* the input text is empty and selectedItem is the chosen item.
C3_TextClearedSelectionKept ==
  (ev = "commit" /\ pc = "idle" /\ resetAfterSelect) =>
    (inputValue = EmptyText /\ ds.sel = committed)

\* C3 (amended): with resetAfterSelect, after a commit and its handlers the
\* input text is empty, selectedItem is null again, and the chosen item was
\* the first argument the caller's callback got.
C3_TextAndSelectionCleared ==
  (ev = "commit" /\ pc = "idle" /\ resetAfterSelect) =>
    /\ inputValue = EmptyText
    /\ ds.sel = Null
    /\ calls # << >>
    /\ Head(calls) = committed

\* C3 witness: a commit under resetAfterSelect, of a row found by typing.
C3_Witness ==
  /\ ev = "commit"
  /\ pc = "idle"
  /\ resetAfterSelect
  /\ committed = "i2"
  /\ inputValue = EmptyText
  /\ calls = << "i2", Null >>

\* C4 (as claimed): highlightedIndex is none or an index of filteredItems.
C4_HighlightInRange ==
  ds.hi = -1 \/ ds.hi \in Rows(filteredItems)

\* C5 (as claimed): after the caller changes the value prop, the input text
\* is the new value, the empty string included.
C5_TextFollowsValue ==
  (ev = "value" /\ pc = "idle" /\ value # Undefined) => inputValue = value

\* The size the layout must use for row j.
ExpectedSize(j) ==
  IF j \in DOMAIN rowHeights THEN rowHeights[j] + 15 ELSE 30

RECURSIVE ExpectedOffset(_)
ExpectedOffset(j) ==
  IF j = 0 THEN 0 ELSE ExpectedOffset(j - 1) + ExpectedSize(j - 1)

\* C6: every size the List has cached is 30 for a row with no recorded
\* measurement and the measured height + 15 for a row with one, so the
\* offset of each laid-out row adds up those sizes of the rows before it.
C6_LayoutUsesMeasuredHeights ==
  \A j \in 0..lastMeasuredIndex :
    /\ itemSizes[j] = ExpectedSize(j)
    /\ getRowHeight(rowHeights, j) = ExpectedSize(j)
    /\ ItemOffset(itemSizes, j) = ExpectedOffset(j)

\* C6 witness: the second row measured at 40 puts 55 between the offsets
\* of the second and the third row.
C6_Witness ==
  /\ lastMeasuredIndex = 2
  /\ 1 \in DOMAIN rowHeights
  /\ rowHeights[1] = 40
  /\ ItemOffset(itemSizes, 2) = ItemOffset(itemSizes, 1) + 55

\* C7 (as claimed): whenever filteredItems changes, rowHeights is emptied.
C7_HeightsEmptiedOnChange ==
  [][filteredItems' # filteredItems => rowHeights' = NoRows]_vars

\* C8 (as claimed): every recomputation of filteredItems that a change of
\* the input text or of the items list triggers leaves highlightedIndex at
\* 0 and the list scrolled to the top.
C8_RecomputationResets ==
  [][(pc = "effects" /\ pendFilter \in {"input", "items"})
       => (ds'.hi = 0 /\ scrollIndex' = 0)]_vars

\* C8 (amended): every change of the input text that onInputValueChange
\* stores (typing, the label a commit writes, the clearing by reset) comes
\* with highlightedIndex 0 and the list scrolled to the top; the filter
\* effect an items change triggers leaves highlightedIndex as it was.
C8_InputChangeResets ==
  [][/\ (inputValue' # inputValue /\ ~pendValue)
          => (ds'.hi = 0 /\ scrollIndex' = 0)
     /\ (pc = "effects" /\ pendFilter = "items") => ds'.hi = ds.hi]_vars

\* C8 witness: the render after a keystroke: the new text, highlight 0,
\* scrolled to the top, the list shown, the filter effect due.
C8_Witness ==
  /\ pendFilter = "input"
  /\ ev = "other"
  /\ inputValue # EmptyText
  /\ ds.hi = 0
  /\ scrollIndex = 0
  /\ listShown

\* C9 (as claimed): no rendered row sees an inputValue together with a
\* filteredItems computed from an older inputValue or items.
C9_RowsSeeCurrentFilter ==
  listShown => filteredItems = Filter(items, inputValue)

\* C9 (amended): a render whose filteredItems is not the filter result of
\* its own inputValue and items has the filter effect due, and the flush of
\* that render's effects replaces filteredItems by that result before an
\* event is handled.
C9_StaleOnlyUntilFlush ==
  /\ filteredItems # Filter(items, inputValue) => (pc = "effects" /\ pendFilter # "none")
  /\ pc = "idle" => pendFilter = "none"

\* C9 witness: the render after a keystroke shows rows of the old
\* filteredItems beside the new inputValue.
C9_Witness ==
  /\ listShown
  /\ pendFilter = "input"
  /\ filteredItems # Filter(items, inputValue)

\* The presets among the notifications so far, in order.
PresetNotifications == SelectSeq(notifications, LAMBDA v : v \in Presets)

\* The item a preset puts on the head.
HeadOf(p) ==
  CASE p = "DHAROKS" -> 4880
    [] p = "MAX_MELEE" -> 26382
    [] p = "MAX_RANGED" -> 27235
    [] p = "VERACS" -> 4976
    [] p = "VOID_MELEE" -> 11665
    [] p = "VOID_RANGED" -> 11664

\* C10: store.updatePlayer has been called once per notification that
\* carried one of the six presets, in order, with that preset's equipment
\* (told apart by its head item and by whether it sets weapon and shield),
\* and never for a null, undefined or unknown notification.
C10_UpdatePerPreset ==
  /\ Len(updateCalls) = Len(PresetNotifications)
  /\ \A k \in 1..Len(updateCalls) :
       LET p == PresetNotifications[k]
           e == updateCalls[k].equipment
       IN  /\ DOMAIN updateCalls[k] = {"equipment"}
           /\ e.head = findItemById(HeadOf(p))
           /\ ("weapon" \in DOMAIN e) = (p \in {"DHAROKS", "VERACS"})
           /\ ("shield" \in DOMAIN e) = (p \in {"DHAROKS", "VERACS"})

\* C10 witness: a preset, then the null of the select resetting itself,
\* then another preset: two calls.
C10_Witness ==
  /\ notifications = << "VERACS", "null", "MAX_MELEE" >>
  /\ Len(updateCalls) = 2
  /\ availableEquipment = EquipmentIds

====
